---- MODULE Spec2Model ----
(***************************************************************************)
(* Model of src/app.py: the /upload handler of a Flask service that saves  *)
(* an uploaded archive, unpacks it under ./builds, locates package.json,   *)
(* writes a default Dockerfile when none exists, and then builds, removes  *)
(* and runs a Docker container.                                            *)
(*                                                                         *)
(* Strings the code inspects (file names, image names) are sequences of    *)
(* one-character strings, so rsplit, splitext, lower and endswith are      *)
(* computed as Python computes them.  The handler is run by up to Slots    *)
(* concurrent worker threads; every filesystem call and every external     *)
(* command is one step of the request that makes it.                       *)
(***************************************************************************)
EXTENDS Integers, Sequences, FiniteSets, TLC

\* ---------------------------------------------------------------- bounds
\* Total number of requests received in one behaviour.
MaxRequests == 2

\* The worker threads: two requests can be in flight at the same time.
Slots == {1, 2}

\* ------------------------------------------------------- string helpers
UpperChars == <<"A","B","C","D","E","F","G","H","I","J","K","L","M",
                "N","O","P","Q","R","S","T","U","V","W","X","Y","Z">>
LowerChars == <<"a","b","c","d","e","f","g","h","i","j","k","l","m",
                "n","o","p","q","r","s","t","u","v","w","x","y","z">>

\* The lower-case letter of every upper-case letter.
LowerOf ==
    [u \in { UpperChars[i] : i \in 1..26 } |->
        LowerChars[CHOOSE i \in 1..26 : UpperChars[i] = u]]

\* str.lower() on one character.
LowerChar(c) == IF c \in DOMAIN LowerOf THEN LowerOf[c] ELSE c

\* str.lower()
Lower(s) == [i \in 1..Len(s) |-> LowerChar(s[i])]

\* str.rfind(c), 1-based; 0 when c does not occur.
RFind(s, c) ==
    IF \E i \in 1..Len(s) : s[i] = c
    THEN CHOOSE i \in 1..Len(s) : s[i] = c /\ \A j \in (i+1)..Len(s) : s[j] # c
    ELSE 0

\* str.endswith(suffix)
EndsWith(s, suffix) ==
    /\ Len(s) >= Len(suffix)
    /\ SubSeq(s, Len(s) - Len(suffix) + 1, Len(s)) = suffix

\* filename.rsplit('.', 1)[1]: the part after the last dot.
RSplitExt(s) == SubSeq(s, RFind(s, ".") + 1, Len(s))

\* ------------------------------------------------------- configuration
UPLOAD_FOLDER == <<".","/","u","p","l","o","a","d","s">>
BUILD_FOLDER == <<".","/","b","u","i","l","d","s">>
ALLOWED_EXTENSIONS == { <<"z","i","p">> }

\* The port published by every container: "-p 3000:3000".
HostPort == 3000

\* allowed_file without the extension test: any name with a dot passes.
allowed_file_AnyExtension(filename) ==
    \E i \in 1..Len(filename) : filename[i] = "."

\* def allowed_file(filename)
allowed_file(filename) ==
    /\ \E i \in 1..Len(filename) : filename[i] = "."
    /\ Lower(RSplitExt(filename)) \in ALLOWED_EXTENSIONS

\* os.path.splitext(p)[0]: the extension starts at the last dot of the last
\* path component, but leading dots of that component never start one.
SplitextRoot(p) ==
    LET sepIndex == RFind(p, "/")
        dotIndex == RFind(p, ".")
    IN IF /\ dotIndex > sepIndex
          /\ \E k \in (sepIndex + 1)..(dotIndex - 1) : p[k] # "."
       THEN SubSeq(p, 1, dotIndex - 1)
       ELSE p

\* os.path.join(app.config['UPLOAD_FOLDER'], file.filename)
FilePath(filename) == UPLOAD_FOLDER \o <<"/">> \o filename

\* os.path.join(BUILD_FOLDER, os.path.splitext(file.filename)[0])
ExtractPath(filename) == BUILD_FOLDER \o <<"/">> \o SplitextRoot(filename)

\* The image name without .lower().
ImageName_NoLower(filename) ==
    SplitextRoot(filename) \o <<"-","i","m","a","g","e">>

\* f"{os.path.splitext(file.filename)[0].lower()}-image"
ImageName(filename) ==
    Lower(SplitextRoot(filename)) \o <<"-","i","m","a","g","e">>

\* f"{os.path.splitext(file.filename)[0].lower()}-container"
ContainerName(filename) ==
    Lower(SplitextRoot(filename)) \o <<"-","c","o","n","t","a","i","n","e","r">>

\* ------------------------------------------------------------- inputs
\* File names a client may send (request.files['file'].filename is the raw
\* client string).  None of them holds a path separator.
FN_a     == <<"a",".","z","i","p">>
FN_A     == <<"A",".","z","i","p">>
FN_aZIP  == <<"a",".","Z","I","P">>
FN_b     == <<"b",".","z","i","p">>
FN_dot   == <<".","z","i","p">>
FN_txt   == <<"a",".","t","x","t">>
FN_noext == <<"z","i","p">>
FN_empty == <<>>

Filenames == {FN_a, FN_A, FN_aZIP, FN_b, FN_dot, FN_txt, FN_noext, FN_empty}

\* Archive contents.  A well-formed archive is a set of member paths, every
\* member carrying the archive's id as its content; "garbage" is a byte
\* stream that is not a zip file.
Archives ==
    { [id |-> "deep",    zip |-> TRUE,  members |-> { <<"sub","pkg","package.json">> }],
      [id |-> "noapp",   zip |-> TRUE,  members |-> { <<"index.js">> }],
      [id |-> "root",    zip |-> TRUE,  members |-> { <<"package.json">> }],
      [id |-> "own",     zip |-> TRUE,  members |-> { <<"package.json">>, <<"Dockerfile">> }],
      [id |-> "garbage", zip |-> FALSE, members |-> {}] }

Archive(id) == CHOOSE a \in Archives : a.id = id

\* One POST /upload with a 'file' part.
Upload(f, a) == [has_file |-> TRUE, filename |-> f, archive |-> a]

\* The requests a client sends: one without a 'file' part, every rejected
\* name, a.zip with every archive, and the other accepted names with one
\* archive each.
Requests ==
    { [has_file |-> FALSE, filename |-> FN_empty, archive |-> "garbage"] }
    \cup { Upload(f, "deep") : f \in {FN_empty, FN_txt, FN_noext, FN_aZIP, FN_dot, FN_A} }
    \cup { Upload(FN_a, a.id) : a \in Archives }
    \cup { Upload(FN_b, "own") }

\* The text written at lines 65-73.
DefaultDockerfile == "FROM node:16 ... CMD npm start"

NoResponse == [status |-> 0, kind |-> "none", text |-> <<>>,
               docker_image |-> <<>>, docker_container |-> <<>>]

\* ---------------------------------------------------------------- state
VARIABLES
    pc,                 \* pc[r]: where the request served by slot r stands
    rid,                \* rid[r]: serial number of the request in slot r
    nreq,               \* number of requests received so far
    request,            \* request[r]: the input of the request in slot r
    package_json_path,  \* local of upload_file, relative to extract_path
    descriptor,         \* what os.path.exists(dockerfile_path) returned
    image_name,         \* local of upload_file
    container_name,     \* local of upload_file
    log,                \* log[r]: side effects the request performed, in order
    response,           \* response[r]: what the request returned
    uploads,            \* ./uploads: file path -> id of the archive saved there
    builds,             \* ./builds: <<tree, relative path>> -> content
    images,             \* docker images: name -> who built it, from which files
    containers          \* docker containers: name -> record

vars == <<pc, rid, nreq, request, package_json_path, descriptor, image_name,
          container_name, log, response, uploads, builds, images, containers>>

locals == <<package_json_path, descriptor, image_name, container_name>>
fs == <<uploads, builds>>
docker == <<images, containers>>

Terminal == {"Succeeded", "Failed", "Crashed"}

Init ==
    /\ pc = [r \in Slots |-> "Idle"]
    /\ rid = [r \in Slots |-> 0]
    /\ nreq = 0
    /\ request = [r \in Slots |-> [has_file |-> FALSE, filename |-> FN_empty,
                                   archive |-> "garbage"]]
    /\ package_json_path = [r \in Slots |-> <<>>]
    /\ descriptor = [r \in Slots |-> "unchecked"]
    /\ image_name = [r \in Slots |-> <<>>]
    /\ container_name = [r \in Slots |-> <<>>]
    /\ log = [r \in Slots |-> <<>>]
    /\ response = [r \in Slots |-> NoResponse]
    /\ uploads = <<>>
    /\ builds = <<>>
    /\ images = <<>>
    /\ containers = <<>>

\* One side effect of a request: a filesystem call or an external command.
Effect(op, exit, err) == [op |-> op, exit |-> exit, stderr |-> err]

\* jsonify({'error': ...}), status
ErrorResponse(status, text) ==
    [status |-> status, kind |-> "error", text |-> text,
     docker_image |-> <<>>, docker_container |-> <<>>]

\* An exception nothing catches leaves upload_file: Flask answers 500 with
\* its own error page, not with a JSON body of the handler.
UnhandledResponse ==
    [status |-> 500, kind |-> "unhandled", text |-> <<>>,
     docker_image |-> <<>>, docker_container |-> <<>>]

\* A worker takes the next request: the state before line 37.  Workers are
\* interchangeable, so the free worker with the lowest number takes it.
Receive(r) ==
    /\ pc[r] \in {"Idle"} \cup Terminal
    /\ \A q \in 1..(r - 1) : pc[q] \notin {"Idle"} \cup Terminal
    /\ nreq < MaxRequests
    /\ \E q \in Requests : request' = [request EXCEPT ![r] = q]
    /\ nreq' = nreq + 1
    /\ rid' = [rid EXCEPT ![r] = nreq + 1]
    /\ pc' = [pc EXCEPT ![r] = "Received"]
    /\ package_json_path' = [package_json_path EXCEPT ![r] = <<>>]
    /\ descriptor' = [descriptor EXCEPT ![r] = "unchecked"]
    /\ image_name' = [image_name EXCEPT ![r] = <<>>]
    /\ container_name' = [container_name EXCEPT ![r] = <<>>]
    /\ log' = [log EXCEPT ![r] = <<>>]
    /\ response' = [response EXCEPT ![r] = NoResponse]
    /\ UNCHANGED <<fs, docker>>

\* Lines 37-45 and 114: the three rejections, or the file is accepted.
Validate(r) ==
    /\ pc[r] = "Received"
    /\ IF ~request[r].has_file
       THEN /\ pc' = [pc EXCEPT ![r] = "Failed"]
            /\ response' = [response EXCEPT ![r] =
                   ErrorResponse(400, <<"No file part in the request">>)]
       ELSE IF request[r].filename = <<>>
       THEN /\ pc' = [pc EXCEPT ![r] = "Failed"]
            /\ response' = [response EXCEPT ![r] =
                   ErrorResponse(400, <<"No selected file">>)]
       ELSE IF allowed_file(request[r].filename)
       THEN /\ pc' = [pc EXCEPT ![r] = "Validated"]
            /\ UNCHANGED response
       ELSE /\ pc' = [pc EXCEPT ![r] = "Failed"]
            /\ response' = [response EXCEPT ![r] =
                   ErrorResponse(400, <<"Invalid file format. Only .zip files are allowed.">>)]
    /\ UNCHANGED <<rid, nreq, request, locals, log, fs, docker>>

\* The handler with a lock per build key: a request waits at line 47 while
\* another request for the same working tree is past validation.
Save_Locked(r) ==
    /\ pc[r] = "Validated"
    /\ \A q \in Slots \ {r} :
          ~ /\ pc[q] \notin {"Idle", "Received", "Validated", "Succeeded", "Failed", "Crashed"}
            /\ ExtractPath(request[q].filename) = ExtractPath(request[r].filename)
    /\ uploads' = [f \in DOMAIN uploads \cup {FilePath(request[r].filename)} |->
                      IF f = FilePath(request[r].filename) THEN request[r].archive
                      ELSE uploads[f]]
    /\ log' = [log EXCEPT ![r] = Append(@, Effect("save", 0, ""))]
    /\ pc' = [pc EXCEPT ![r] = "Saved"]
    /\ UNCHANGED <<rid, nreq, request, locals, response, builds, docker>>

\* Lines 47-48: file.save(os.path.join(UPLOAD_FOLDER, file.filename))
Save(r) ==
    /\ pc[r] = "Validated"
    /\ uploads' = [f \in DOMAIN uploads \cup {FilePath(request[r].filename)} |->
                      IF f = FilePath(request[r].filename) THEN request[r].archive
                      ELSE uploads[f]]
    /\ log' = [log EXCEPT ![r] = Append(@, Effect("save", 0, ""))]
    /\ pc' = [pc EXCEPT ![r] = "Saved"]
    /\ UNCHANGED <<rid, nreq, request, locals, response, builds, docker>>

\* ---------------------------------------------------------- filesystem
\* The files of ./builds below the directory tree.
FilesUnder(tree) == { k[2] : k \in { k \in DOMAIN builds : k[1] = tree } }

\* os.path.dirname of a relative path: the path without its last name.
Dirname(path) == SubSeq(path, 1, Len(path) - 1)

IsPrefix(d, e) == Len(d) <= Len(e) /\ SubSeq(e, 1, Len(d)) = d

\* def find_file(root_path, filename): the paths os.walk may yield first.
\* os.walk is top-down, so a directory is visited before everything below
\* it; the order among sibling directories is whatever os.listdir returns.
\* The empty set stands for None.
find_file(root_path, filename) ==
    LET hits == { p \in FilesUnder(root_path) : p[Len(p)] = filename }
    IN { p \in hits :
           ~ \E q \in hits : /\ q # p
                             /\ Len(q) < Len(p)
                             /\ IsPrefix(Dirname(q), Dirname(p)) }

\* shutil.unpack_archive(filepath, extract_path) picks the unpacker by
\* filepath.endswith('.zip') (case-sensitive) and raises ReadError when no
\* unpacker matches or when the file is not a zip file; nothing has been
\* created under extract_path by then.
CanUnpack(filepath, archive) ==
    /\ EndsWith(filepath, <<".","z","i","p">>)
    /\ archive.zip

\* Unpacking that clears the target directory first.
Unpacked_Wiped(tree, archive) ==
    LET new == { <<tree, m>> : m \in archive.members }
    IN [k \in { k \in DOMAIN builds : k[1] # tree } \cup new |->
           IF k \in new THEN archive.id ELSE builds[k]]

\* The tree after unpacking archive into it: every member is written, every
\* other file stays.
Unpacked(tree, archive) ==
    LET new == { <<tree, m>> : m \in archive.members }
    IN [k \in DOMAIN builds \cup new |->
           IF k \in new THEN archive.id ELSE builds[k]]

\* Lines 52-54: unpack the file saved at filepath.  The bytes are those found
\* in ./uploads at this moment.
Extract(r) ==
    LET filename == request[r].filename
        filepath == FilePath(filename)
        archive == Archive(uploads[filepath])
    IN /\ pc[r] = "Saved"
       /\ IF CanUnpack(filepath, archive)
          THEN /\ builds' = Unpacked(ExtractPath(filename), archive)
               /\ log' = [log EXCEPT ![r] = Append(@, Effect("unpack", 0, ""))]
               /\ pc' = [pc EXCEPT ![r] = "Extracted"]
               /\ UNCHANGED response
          ELSE /\ log' = [log EXCEPT ![r] = Append(@, Effect("unpack", 1, "ReadError"))]
               /\ pc' = [pc EXCEPT ![r] = "Crashed"]
               /\ response' = [response EXCEPT ![r] = UnhandledResponse]
               /\ UNCHANGED builds
       /\ UNCHANGED <<rid, nreq, request, locals, uploads, docker>>

\* Lines 57-59 with a cleanup: the working tree is removed before the 400
\* response is returned.
Locate_Rmtree(r) ==
    LET tree == ExtractPath(request[r].filename)
        found == find_file(tree, "package.json")
    IN /\ pc[r] = "Extracted"
       /\ IF found = {}
          THEN /\ pc' = [pc EXCEPT ![r] = "Failed"]
               /\ response' = [response EXCEPT ![r] =
                      ErrorResponse(400, <<"package.json not found in the extracted ZIP.">>)]
               /\ builds' = [k \in { k \in DOMAIN builds : k[1] # tree } |-> builds[k]]
               /\ UNCHANGED package_json_path
          ELSE /\ \E p \in found :
                      package_json_path' = [package_json_path EXCEPT ![r] = p]
               /\ pc' = [pc EXCEPT ![r] = "Located"]
               /\ UNCHANGED <<response, builds>>
       /\ UNCHANGED <<rid, nreq, request, descriptor, image_name, container_name,
                      log, uploads, docker>>

\* Lines 57-59.
Locate(r) ==
    LET found == find_file(ExtractPath(request[r].filename), "package.json")
    IN /\ pc[r] = "Extracted"
       /\ IF found = {}
          THEN /\ pc' = [pc EXCEPT ![r] = "Failed"]
               /\ response' = [response EXCEPT ![r] =
                      ErrorResponse(400, <<"package.json not found in the extracted ZIP.">>)]
               /\ UNCHANGED package_json_path
          ELSE /\ \E p \in found :
                      package_json_path' = [package_json_path EXCEPT ![r] = p]
               /\ pc' = [pc EXCEPT ![r] = "Located"]
               /\ UNCHANGED response
       /\ UNCHANGED <<rid, nreq, request, descriptor, image_name, container_name,
                      log, fs, docker>>

\* The Dockerfile looked for at the top of the working tree.
DockerfilePath_AtRoot(r) ==
    <<ExtractPath(request[r].filename), <<"Dockerfile">>>>

\* os.path.join(os.path.dirname(package_json_path), 'Dockerfile')
DockerfilePath(r) ==
    <<ExtractPath(request[r].filename),
      Append(Dirname(package_json_path[r]), "Dockerfile")>>

\* The write made unconditional.
DescriptorExists_Never(r) == FALSE

\* os.path.exists(dockerfile_path)
DescriptorExists(r) == DockerfilePath(r) \in DOMAIN builds

\* Lines 62-63: the test that guards the write.
CheckDescriptor(r) ==
    /\ pc[r] = "Located"
    /\ IF DescriptorExists(r)
       THEN /\ descriptor' = [descriptor EXCEPT ![r] = "present"]
            /\ pc' = [pc EXCEPT ![r] = "DescriptorEnsured"]
       ELSE /\ descriptor' = [descriptor EXCEPT ![r] = "absent"]
            /\ pc' = [pc EXCEPT ![r] = "DescriptorMissing"]
    /\ UNCHANGED <<rid, nreq, request, package_json_path, image_name,
                   container_name, log, response, fs, docker>>

\* Lines 64-74: open(dockerfile_path, 'w') and write the default text.
WriteDescriptor(r) ==
    /\ pc[r] = "DescriptorMissing"
    /\ builds' = [k \in DOMAIN builds \cup {DockerfilePath(r)} |->
                     IF k = DockerfilePath(r) THEN DefaultDockerfile ELSE builds[k]]
    /\ log' = [log EXCEPT ![r] = Append(@, Effect("write_descriptor", 0, ""))]
    /\ pc' = [pc EXCEPT ![r] = "DescriptorEnsured"]
    /\ UNCHANGED <<rid, nreq, request, locals, response, uploads, docker>>

\* -------------------------------------------------------------- docker
\* The container runtime is an external collaborator; what follows is its
\* command-line contract as far as upload_file relies on it.

Digits == <<"0","1","2","3","4","5","6","7","8","9">>

\* The characters an image reference can start with: a lower-case letter
\* or a digit.
TagStart == { LowerChars[i] : i \in 1..26 } \cup { Digits[i] : i \in 1..10 }

\* docker build -t rejects a tag that starts with anything else with
\* "invalid reference format".
ValidTag(name) ==
    /\ Len(name) > 0
    /\ name[1] \in TagStart

\* How docker build can end, as <<exit status, stderr>>: a build may fail
\* for reasons of its own (npm install, a broken Dockerfile), and always
\* fails on a bad tag.
BuildOutcomes(name) ==
    IF ValidTag(name)
    THEN { <<0, "">>, <<1, "npm install failed">> }
    ELSE { <<1, "invalid reference format">> }

\* Containers that hold the host port.
PortHolders == { c \in DOMAIN containers : containers[c].running }

\* docker run -d --name name -p 3000:3000 image: the outcomes it can have,
\* as <<exit status, stderr, containers afterwards>>.  A name in use is
\* refused outright; when the host port is taken the container is created
\* but cannot start; otherwise it starts, or the daemon fails.
RunOutcomes(name, r) ==
    LET created(up) ==
            [c \in DOMAIN containers \cup {name} |->
                IF c = name
                THEN [image |-> images[image_name[r]].by, by |-> rid[r],
                      port |-> HostPort, running |-> up]
                ELSE containers[c]]
    IN IF name \in DOMAIN containers
       THEN { <<1, "name is already in use", containers>> }
       ELSE IF PortHolders # {}
       THEN { <<1, "port is already allocated", created(FALSE)>> }
       ELSE { <<0, "", created(TRUE)>>, <<1, "run failed", containers>> }

\* The handler reporting the exception text instead of the command's stderr.
DockerError_StrOfException(err) ==
    ErrorResponse(500, <<"Docker error: ", "CalledProcessError">>)

\* subprocess.CalledProcessError caught at line 110.
DockerError(err) == ErrorResponse(500, <<"Docker error: ", err>>)

\* docker build run without check=True.
AfterBuild_NoCheck(exit) == "Built"

\* check=True at line 84: a non-zero exit raises CalledProcessError, which
\* the handler at line 110 turns into the response.
AfterBuild(exit) == IF exit = 0 THEN "Built" ELSE "Failed"

\* Lines 77-89: the names, then docker build -t image_name <context>.
Build(r) ==
    LET name == ImageName(request[r].filename)
        context == <<ExtractPath(request[r].filename), Dirname(package_json_path[r])>>
    IN /\ pc[r] = "DescriptorEnsured"
       /\ image_name' = [image_name EXCEPT ![r] = name]
       /\ container_name' = [container_name EXCEPT ![r] = ContainerName(request[r].filename)]
       /\ \E o \in BuildOutcomes(name) :
             LET exit == o[1]
                 err == o[2]
             IN /\ images' = IF exit = 0
                             THEN [i \in DOMAIN images \cup {name} |->
                                      IF i = name
                                      THEN [by |-> rid[r], context |-> context,
                                            manifest |-> builds[<<context[1], package_json_path[r]>>],
                                            dockerfile |-> builds[DockerfilePath(r)]]
                                      ELSE images[i]]
                             ELSE images
                /\ log' = [log EXCEPT ![r] = Append(@, Effect("build", exit, err))]
                /\ pc' = [pc EXCEPT ![r] = AfterBuild(exit)]
                /\ response' = IF AfterBuild(exit) = "Failed"
                               THEN [response EXCEPT ![r] = DockerError(err)]
                               ELSE response
       /\ UNCHANGED <<rid, nreq, request, package_json_path, descriptor, fs, containers>>

\* docker rm -f run with check=True.
AfterRemove_Check(exit) == IF exit = 0 THEN "Removed" ELSE "Failed"

\* A failed docker rm -f that sends the request back to docker build.
AfterRemove_Rebuild(exit) == IF exit = 0 THEN "Removed" ELSE "DescriptorEnsured"

\* What a non-zero exit of docker rm -f does to the request: nothing, the
\* call at line 92 has no check=True and its result is dropped.
AfterRemove(exit) == "Removed"

\* Line 92: docker rm -f container_name.
Remove(r) ==
    /\ pc[r] = "Built"
    /\ \E exit \in {0, 1} :
          /\ containers' = IF exit = 0
                           THEN [c \in DOMAIN containers \ {container_name[r]} |->
                                    containers[c]]
                           ELSE containers
          /\ log' = [log EXCEPT ![r] = Append(@,
                        Effect("rm", exit, IF exit = 0 THEN "" ELSE "rm failed"))]
          /\ pc' = [pc EXCEPT ![r] = AfterRemove(exit)]
    /\ UNCHANGED <<rid, nreq, request, locals, response, fs, images>>

\* docker run without check=True.
AfterRun_NoCheck(exit) == "Deployed"

\* check=True at line 97.
AfterRun(exit) == IF exit = 0 THEN "Deployed" ELSE "Failed"

\* Lines 95-102: docker run.
Run(r) ==
    /\ pc[r] = "Removed"
    /\ \E o \in RunOutcomes(container_name[r], r) :
          /\ containers' = o[3]
          /\ log' = [log EXCEPT ![r] = Append(@, Effect("run", o[1], o[2]))]
          /\ pc' = [pc EXCEPT ![r] = AfterRun(o[1])]
          /\ response' = IF AfterRun(o[1]) = "Failed"
                         THEN [response EXCEPT ![r] = DockerError(o[2])]
                         ELSE response
    /\ UNCHANGED <<rid, nreq, request, locals, fs, images>>

\* Lines 104-108.
Respond(r) ==
    /\ pc[r] = "Deployed"
    /\ response' = [response EXCEPT ![r] =
           [status |-> 200, kind |-> "ok",
            text |-> <<"File uploaded and Docker container started successfully">>,
            docker_image |-> image_name[r],
            docker_container |-> container_name[r]]]
    /\ pc' = [pc EXCEPT ![r] = "Succeeded"]
    /\ UNCHANGED <<rid, nreq, request, locals, log, fs, docker>>

Next ==
    \E r \in Slots :
        \/ Receive(r)
        \/ Validate(r)
        \/ Save(r)
        \/ Extract(r)
        \/ Locate(r)
        \/ CheckDescriptor(r)
        \/ WriteDescriptor(r)
        \/ Build(r)
        \/ Remove(r)
        \/ Run(r)
        \/ Respond(r)

Spec == Init /\ [][Next]_vars

\* Requests one at a time: a request is received only when no other is in
\* flight.
Quiet == \A r \in Slots : pc[r] \in {"Idle"} \cup Terminal

ReceiveAlone(r) == Quiet /\ Receive(r)

NextSeq ==
    \E r \in Slots :
        \/ ReceiveAlone(r)
        \/ Validate(r)
        \/ Save(r)
        \/ Extract(r)
        \/ Locate(r)
        \/ CheckDescriptor(r)
        \/ WriteDescriptor(r)
        \/ Build(r)
        \/ Remove(r)
        \/ Run(r)
        \/ Respond(r)

SpecSeq == Init /\ [][NextSeq]_vars

\* ---------------------------------------------------- reading the log
\* The operations request r has performed, in order.
Ops(r) == [i \in 1..Len(log[r]) |-> log[r][i].op]

IsCommand(e) == e.op \in {"build", "rm", "run"}

\* The external commands request r has invoked, in order.
Commands(r) == SelectSeq(log[r], IsCommand)

CommandOps(r) == [i \in 1..Len(Commands(r)) |-> Commands(r)[i].op]

Did(r, op) == \E i \in 1..Len(log[r]) : log[r][i].op = op

Count(r, op) == Cardinality({ i \in 1..Len(log[r]) : log[r][i].op = op })

\* The entry of the single invocation of op by request r.
Entry(r, op) == log[r][CHOOSE i \in 1..Len(log[r]) : log[r][i].op = op]

InFlight(r) == pc[r] \notin {"Idle"} \cup Terminal

\* ------------------------------------------------------------- claims

\* The extension of a file name as the claim words it: what follows the
\* last dot, none when the name has no dot.
C1_ZipExtension(f) ==
    /\ \E i \in 1..Len(f) : f[i] = "."
    /\ LET ext == SubSeq(f, RFind(f, ".") + 1, Len(f))
       IN Len(ext) = 3 /\ ext[1] \in {"z","Z"} /\ ext[2] \in {"i","I"}
                       /\ ext[3] \in {"p","P"}

C1_Rejected(q) ==
    \/ ~q.has_file
    \/ q.filename = <<>>
    \/ ~C1_ZipExtension(q.filename)

\* C1: a request whose file field is missing, whose file name is empty, or
\* whose file name has no extension or one other than zip (any case) only
\* ever ends in Failed with a 400 error response, and performs no side
\* effect: nothing saved, nothing unpacked or written, no command invoked.
C1_RejectedBeforeSideEffects ==
    \A r \in Slots :
        (pc[r] # "Idle" /\ C1_Rejected(request[r])) =>
            /\ pc[r] \in {"Received", "Failed"}
            /\ log[r] = <<>>
            /\ pc[r] = "Failed" =>
                  /\ response[r].status = 400
                  /\ response[r].kind = "error"

\* A rejected upload has ended while the builds directory holds a tree of
\* an earlier upload and another request is at work.
C1_Witness ==
    \E r \in Slots :
        /\ pc[r] = "Failed"
        /\ request[r].has_file
        /\ request[r].filename = FN_txt
        /\ response[r].status = 400
        /\ DOMAIN builds # {}

\* An upload that passes validation and whose bytes are a well-formed zip
\* archive with no member named package.json.
C2_NoManifest(q) ==
    /\ q.has_file
    /\ C1_ZipExtension(q.filename)
    /\ Archive(q.archive).zip
    /\ \A m \in Archive(q.archive).members : m[Len(m)] # "package.json"

\* C2: an accepted archive with no package.json anywhere in it ends in
\* Failed with the 400 'package.json not found' response, whatever uploads
\* came before; no descriptor is written and no command is invoked.
C2_NoManifestFails ==
    \A r \in Slots :
        (pc[r] # "Idle" /\ C2_NoManifest(request[r])) =>
            /\ pc[r] \in {"Received", "Validated", "Saved", "Extracted", "Failed"}
            /\ ~Did(r, "write_descriptor")
            /\ Commands(r) = <<>>
            /\ pc[r] = "Failed" =>
                  response[r] = ErrorResponse(400,
                      <<"package.json not found in the extracted ZIP.">>)

\* C3: when docker build exits non-zero the request ends in Failed with a
\* 500 response whose error is 'Docker error: ' followed by the build's
\* stderr; the build is the only command the request invokes.
C3_BuildFailure ==
    \A r \in Slots :
        (Did(r, "build") /\ Entry(r, "build").exit # 0) =>
            /\ pc[r] = "Failed"
            /\ response[r].status = 500
            /\ response[r].kind = "error"
            /\ response[r].text = <<"Docker error: ", Entry(r, "build").stderr>>
            /\ CommandOps(r) = <<"build">>

\* A build of a well-formed tag has failed while a container of an earlier
\* request is running.
C3_Witness ==
    \E r \in Slots :
        /\ pc[r] = "Failed"
        /\ Did(r, "build")
        /\ Entry(r, "build").stderr = "npm install failed"
        /\ response[r].status = 500
        /\ PortHolders # {}

\* C4: when unpacking fails the request ends in Failed with a structured
\* 400 error response, and nothing follows the failed unpack.
C4_ExtractionErrorIsClientFault ==
    \A r \in Slots :
        (Did(r, "unpack") /\ Entry(r, "unpack").exit # 0) =>
            /\ pc[r] = "Failed"
            /\ response[r].kind = "error"
            /\ response[r].status = 400
            /\ Ops(r) = <<"save", "unpack">>

\* C5: a finished request carries the 200 response with both names exactly
\* when its build and its run both exited zero; a failed run gives 500 with
\* the run's stderr; an error response is 400 when no command was invoked
\* (input and manifest faults) and 500 when a command failed.
C5_ResponseStatus ==
    \A r \in Slots :
        pc[r] \in Terminal =>
            /\ response[r].status = 200 <=>
                  /\ Did(r, "build") /\ Entry(r, "build").exit = 0
                  /\ Did(r, "run") /\ Entry(r, "run").exit = 0
            /\ response[r].status = 200 =>
                  /\ response[r].kind = "ok"
                  /\ response[r].docker_image = image_name[r]
                  /\ response[r].docker_container = container_name[r]
                  /\ image_name[r] # <<>>
            /\ (Did(r, "run") /\ Entry(r, "run").exit # 0) =>
                  /\ response[r].status = 500
                  /\ response[r].text = <<"Docker error: ", Entry(r, "run").stderr>>
            /\ response[r].kind = "error" =>
                  response[r].status = IF Commands(r) = <<>> THEN 400 ELSE 500

\* A request has failed in docker run after a successful build.
C5_Witness ==
    \E r \in Slots :
        /\ pc[r] = "Failed"
        /\ Did(r, "run")
        /\ Entry(r, "build").exit = 0
        /\ Entry(r, "run").stderr = "run failed"
        /\ response[r].status = 500

\* C6: whatever docker rm -f returned, the request goes on to docker run,
\* and how it ends is decided by the exit status of docker run alone.
C6_RemovalIgnored ==
    \A r \in Slots :
        Did(r, "rm") =>
            \/ /\ pc[r] = "Removed"
               /\ CommandOps(r) = <<"build", "rm">>
            \/ /\ CommandOps(r) = <<"build", "rm", "run">>
               /\ IF Entry(r, "run").exit = 0
                  THEN pc[r] \in {"Deployed", "Succeeded"}
                  ELSE /\ pc[r] = "Failed"
                       /\ response[r].text = <<"Docker error: ", Entry(r, "run").stderr>>

\* A request has succeeded although its docker rm -f failed.
C6_Witness ==
    \E r \in Slots :
        /\ pc[r] = "Succeeded"
        /\ Entry(r, "rm").exit # 0
        /\ response[r].status = 200

\* C7: a successful request has invoked build, rm, run, each once and in
\* this order; in any request rm and run come only after a build that
\* exited zero, and run comes only after rm has returned.
C7_CommandOrder ==
    \A r \in Slots :
        LET c == Commands(r)
        IN /\ pc[r] \in {"Deployed", "Succeeded"} =>
                 CommandOps(r) = <<"build", "rm", "run">>
           /\ Len(c) <= 3
           /\ Len(c) >= 1 => c[1].op = "build"
           /\ Len(c) >= 2 => c[1].exit = 0 /\ c[2].op = "rm"
           /\ Len(c) >= 3 => c[3].op = "run"

\* A request has succeeded.
C7_Witness ==
    \E r \in Slots :
        /\ pc[r] = "Succeeded"
        /\ Len(Commands(r)) = 3
        /\ Commands(r)[3].exit = 0

\* Request r takes a step.
Steps(r) == pc'[r] # pc[r]

\* The builds directory with the default text at request r's Dockerfile.
C8_DefaultWritten(r) ==
    [k \in DOMAIN builds \cup {DockerfilePath(r)} |->
        IF k = DockerfilePath(r) THEN DefaultDockerfile ELSE builds[k]]

\* What the log of request r says about its descriptor writes.
C8_WriteCount(r) ==
    /\ Count(r, "write_descriptor") <= 1
    /\ descriptor[r] = "unchecked" => Count(r, "write_descriptor") = 0
    /\ descriptor[r] = "present" => Count(r, "write_descriptor") = 0
    /\ descriptor[r] = "absent" =>
          Count(r, "write_descriptor") = IF pc[r] = "DescriptorMissing" THEN 0 ELSE 1

\* What a step of request r does to the builds directory.
C8_Step(r) ==
    /\ (pc[r] = "Located" /\ DockerfilePath(r) \in DOMAIN builds) =>
          /\ pc'[r] = "DescriptorEnsured"
          /\ descriptor'[r] = "present"
          /\ builds' = builds
          /\ log'[r] = log[r]
    /\ (pc[r] = "Located" /\ DockerfilePath(r) \notin DOMAIN builds) =>
          /\ pc'[r] = "DescriptorMissing"
          /\ builds' = builds
    /\ pc[r] = "DescriptorMissing" =>
          /\ pc'[r] = "DescriptorEnsured"
          /\ builds' = C8_DefaultWritten(r)
    /\ pc[r] \in {"DescriptorEnsured", "Built", "Removed", "Deployed"} =>
          builds' = builds

\* C8: a request that finds a Dockerfile in the build context when it
\* checks writes nothing and leaves the builds directory as it is, then and
\* in all its later steps; a request that finds none writes the default text
\* exactly once; so a request that comes after one that wrote the default
\* text finds it and writes nothing.
C8_DescriptorNeverOverwritten ==
    /\ [](\A r \in Slots : C8_WriteCount(r))
    /\ [][\A r \in Slots : Steps(r) => C8_Step(r)]_vars

\* A later request has found the default text an earlier request wrote and
\* has passed the check without writing.
C8_Witness ==
    \E r \in Slots :
        /\ pc[r] = "DescriptorEnsured"
        /\ descriptor[r] = "present"
        /\ rid[r] > 1
        /\ builds[DockerfilePath(r)] = DefaultDockerfile
        /\ ~Did(r, "write_descriptor")

\* The base name of C9: the file name without its extension, the extension
\* being what os.path.splitext takes off, in lower case.
C9_Stem(f) == Lower(SplitextRoot(f))

\* The stem of every file name a request can carry, and the upper-case
\* letters.
C9_StemOf == [f \in Filenames \cup {<<>>} |-> C9_Stem(f)]

C9_UpperCase == { UpperChars[k] : k \in 1..26 }

\* C9: the image name and the container name of a request are the lower-case
\* base name of its file name followed by '-image' and '-container'; two
\* requests with the same file name derive the same names, wherever the
\* manifest was found and whatever the builds directory held.
C9_NamesFromFilename ==
    \A r \in Slots :
        image_name[r] # <<>> =>
            /\ image_name[r] = C9_StemOf[request[r].filename] \o <<"-","i","m","a","g","e">>
            /\ container_name[r] =
                   C9_StemOf[request[r].filename] \o <<"-","c","o","n","t","a","i","n","e","r">>
            /\ \A i \in 1..Len(image_name[r]) : image_name[r][i] \notin C9_UpperCase
            /\ pc[r] = "Succeeded" =>
                   /\ response[r].docker_image = image_name[r]
                   /\ response[r].docker_container = container_name[r]
            /\ \A q \in Slots :
                   (image_name[q] # <<>> /\ request[q].filename = request[r].filename) =>
                       /\ image_name[q] = image_name[r]
                       /\ container_name[q] = container_name[r]

\* Two uploads of a.zip whose manifests were found at different depths have
\* both derived a-image.
C9_Witness ==
    \E r, q \in Slots :
        /\ r # q
        /\ request[r].filename = FN_a /\ request[q].filename = FN_a
        /\ image_name[r] = <<"a","-","i","m","a","g","e">>
        /\ image_name[q] = <<"a","-","i","m","a","g","e">>
        /\ Len(package_json_path[r]) # Len(package_json_path[q])

\* Request r has ended in a failed docker run that was refused because of a
\* container that request q started.
C10_RefusedBecauseOf(r, q) ==
    /\ pc[r] = "Failed"
    /\ Did(r, "run")
    /\ \/ /\ Entry(r, "run").stderr = "port is already allocated"
          /\ \E c \in PortHolders : containers[c].by = rid[q]
       \/ /\ Entry(r, "run").stderr = "name is already in use"
          /\ container_name[r] \in DOMAIN containers
          /\ containers[container_name[r]].by = rid[q]

\* C10: two concurrent requests whose base names differ share no resource,
\* so neither ends differently than it would alone: no request is refused
\* its docker run because of a container that a request with another base
\* name, still in flight, has started.
C10_DifferentNamesIndependent ==
    \A r, q \in Slots :
        (/\ r # q
         /\ pc[q] = "Deployed"
         /\ SplitextRoot(request[r].filename) # SplitextRoot(request[q].filename)) =>
            ~C10_RefusedBecauseOf(r, q)

\* One step of the handler for the request in slot r: lines 37-114.
Handler(r) ==
    \/ Validate(r)
    \/ Save(r)
    \/ Extract(r)
    \/ Locate(r)
    \/ CheckDescriptor(r)
    \/ WriteDescriptor(r)
    \/ Build(r)
    \/ Remove(r)
    \/ Run(r)
    \/ Respond(r)

\* Request r is past validation and has not ended.
C11_AtWork(r) ==
    pc[r] \in {"Saved", "Extracted", "Located", "DescriptorMissing",
               "DescriptorEnsured", "Built", "Removed", "Deployed"}

\* The working tree every file name a request can carry is unpacked into.
C11_TreeOf == [f \in Filenames \cup {<<>>} |-> ExtractPath(f)]

\* C11: nothing makes a request wait for another one of the same file
\* name: a request in flight can always take its next step while the other
\* one is at work; and two requests for the same file name that are both at
\* work use the same working tree and, once they have derived them, the
\* same image name and the same container name.
C11_NoMutualExclusion ==
    [] \A r \in Slots :
        /\ \A q \in Slots \ {r} :
              (/\ InFlight(r) /\ C11_AtWork(q)
               /\ request[r].filename = request[q].filename) =>
                  ENABLED Handler(r)
        /\ \A q \in Slots \ {r} :
              (/\ C11_AtWork(r) /\ C11_AtWork(q)
               /\ request[r].filename = request[q].filename
               /\ package_json_path[r] # <<>> /\ package_json_path[q] # <<>>) =>
                  /\ C11_TreeOf[request[r].filename] = C11_TreeOf[request[q].filename]
                  /\ (image_name[r] # <<>> /\ image_name[q] # <<>>) =>
                        /\ image_name[r] = image_name[q]
                        /\ container_name[r] = container_name[q]

\* Two requests for a.zip are both between docker build and docker run,
\* with one working tree, one image name and one container name.
C11_Witness ==
    \E r, q \in Slots :
        /\ r # q
        /\ request[r].filename = FN_a /\ request[q].filename = FN_a
        /\ pc[r] = "Built" /\ pc[q] = "Removed"
        /\ DockerfilePath(r)[1] = DockerfilePath(q)[1]
        /\ image_name[r] = image_name[q]
        /\ container_name[r] = container_name[q]
        /\ image_name[r] \in DOMAIN images

\* What request r has created is there.
C12_ArtifactsPresent(r) ==
    /\ Did(r, "save") => FilePath(request[r].filename) \in DOMAIN uploads
    /\ (Did(r, "unpack") /\ Entry(r, "unpack").exit = 0) =>
          \E a \in Archives :
              /\ a.zip
              /\ \A m \in a.members :
                    <<ExtractPath(request[r].filename), m>> \in DOMAIN builds
    /\ Did(r, "write_descriptor") => DockerfilePath(r) \in DOMAIN builds
    /\ (Did(r, "build") /\ Entry(r, "build").exit = 0) =>
          image_name[r] \in DOMAIN images

\* The step takes nothing away and changes no container that exists.
C12_NothingRemoved ==
    /\ DOMAIN uploads \subseteq DOMAIN uploads'
    /\ DOMAIN builds \subseteq DOMAIN builds'
    /\ DOMAIN images \subseteq DOMAIN images'

\* The step by which a request fails leaves files, images and the existing
\* containers as they are.
C12_FailingStep(r) ==
    /\ uploads' = uploads
    /\ builds' = builds
    /\ images' = images
    /\ \A c \in DOMAIN containers :
          c \in DOMAIN containers' /\ containers'[c] = containers[c]

\* C12: no failure cleans up.  The step that takes a request to its failed
\* end changes no file, no image and no existing container; no step of any
\* request removes a file or an image; so a failed request finds its saved
\* upload, its working tree, the descriptor it wrote and the image it built
\* still there.
C12_NoCleanupOnFailure ==
    /\ [](\A r \in Slots : pc[r] \in {"Failed", "Crashed"} => C12_ArtifactsPresent(r))
    /\ [][/\ C12_NothingRemoved
          /\ \A r \in Slots :
                (Steps(r) /\ pc'[r] \in {"Failed", "Crashed"}) => C12_FailingStep(r)]_vars

\* A request has failed in docker build after writing a descriptor, and the
\* container an earlier request started under the same name is still running.
C12_Witness ==
    \E r \in Slots :
        /\ pc[r] = "Failed"
        /\ Did(r, "write_descriptor")
        /\ Did(r, "build")
        /\ builds[DockerfilePath(r)] = DefaultDockerfile
        /\ FilePath(request[r].filename) \in DOMAIN uploads
        /\ container_name[r] \in DOMAIN containers
        /\ containers[container_name[r]].by # rid[r]
        /\ containers[container_name[r]].running

\* The archive that lies at the path request r saved its upload to.
C13_Saved(r) == Archive(uploads[FilePath(request[r].filename)])

\* The step by which request r unpacks: every member of the archive is in
\* the working tree with the archive's content, and every other file of
\* ./builds is there as before.
C13_Merged(r) ==
    LET tree == BUILD_FOLDER \o <<"/">> \o SplitextRoot(request[r].filename)
    IN /\ \A m \in C13_Saved(r).members :
             /\ <<tree, m>> \in DOMAIN builds'
             /\ builds'[<<tree, m>>] = C13_Saved(r).id
       /\ \A k \in DOMAIN builds :
             (k[1] # tree \/ k[2] \notin C13_Saved(r).members) =>
                 /\ k \in DOMAIN builds'
                 /\ builds'[k] = builds[k]
       /\ \A k \in DOMAIN builds' :
             k \in DOMAIN builds \/ (k[1] = tree /\ k[2] \in C13_Saved(r).members)

\* C13: unpacking into a working tree that exists overwrites file by file
\* and removes nothing: afterwards the tree holds every member of the new
\* archive with the new content and every file that was there before and
\* is not in the new archive.
C13_ReextractionMerges ==
    [][\A r \in Slots :
          (pc[r] = "Saved" /\ pc'[r] = "Extracted") => C13_Merged(r)]_vars

\* A second upload of a.zip has been unpacked: package.json has the new
\* content, the Dockerfile of the first upload is still there.
C13_Witness ==
    \E r \in Slots :
        LET tree == ExtractPath(FN_a)
        IN /\ pc[r] = "Extracted"
           /\ rid[r] = 2
           /\ request[r] = Upload(FN_a, "root")
           /\ <<tree, <<"package.json">>>> \in DOMAIN builds
           /\ builds[<<tree, <<"package.json">>>>] = "root"
           /\ <<tree, <<"Dockerfile">>>> \in DOMAIN builds
           /\ builds[<<tree, <<"Dockerfile">>>>] = "own"

\* The directory that holds the package.json request r located, as
\* <<working tree, relative directory>>.
C14_Context(r) ==
    <<BUILD_FOLDER \o <<"/">> \o SplitextRoot(request[r].filename),
      SubSeq(package_json_path[r], 1, Len(package_json_path[r]) - 1)>>

\* The Dockerfile of that directory.
C14_Descriptor(r) == <<C14_Context(r)[1], C14_Context(r)[2] \o <<"Dockerfile">>>>

\* What the steps of request r from the descriptor check to docker run do.
C14_Step(r) ==
    /\ pc[r] = "Located" =>
          /\ <<C14_Context(r)[1], C14_Context(r)[2] \o <<"package.json">>>> \in DOMAIN builds
          /\ pc'[r] = "DescriptorEnsured" <=> C14_Descriptor(r) \in DOMAIN builds
    /\ pc[r] = "DescriptorMissing" =>
          /\ DOMAIN builds' = DOMAIN builds \cup {C14_Descriptor(r)}
          /\ builds'[C14_Descriptor(r)] = DefaultDockerfile
          /\ \A k \in DOMAIN builds : k # C14_Descriptor(r) => builds'[k] = builds[k]
    /\ (pc[r] = "DescriptorEnsured" /\ pc'[r] = "Built") =>
          /\ images'[image_name'[r]].context = C14_Context(r)
          /\ images'[image_name'[r]].by = rid[r]
          /\ C14_Descriptor(r) \in DOMAIN builds
          /\ images'[image_name'[r]].dockerfile = builds[C14_Descriptor(r)]
    /\ (pc[r] = "Removed" /\ pc'[r] = "Deployed") =>
          /\ containers'[container_name[r]].port = 3000
          /\ containers'[container_name[r]].running
          /\ containers'[container_name[r]].by = rid[r]

\* C14: the build context is the directory that directly holds the located
\* package.json: the Dockerfile that is tested and, when missing, written is
\* the one in that directory, docker build is given that directory, and the
\* container publishes host port 3000.
C14_BuildContext ==
    [][\A r \in Slots : Steps(r) => C14_Step(r)]_vars

\* a.zip with sub/pkg/package.json and no descriptor has succeeded: the
\* default text is at sub/pkg/Dockerfile, a-image was built from sub/pkg and
\* a-container runs on port 3000.
C14_Witness ==
    \E r \in Slots :
        LET tree == ExtractPath(FN_a)
            image == <<"a","-","i","m","a","g","e">>
            container == <<"a","-","c","o","n","t","a","i","n","e","r">>
        IN /\ pc[r] = "Succeeded"
           /\ request[r] = Upload(FN_a, "deep")
           /\ Did(r, "write_descriptor")
           /\ builds[<<tree, <<"sub","pkg","Dockerfile">>>>] = DefaultDockerfile
           /\ images[image].by = rid[r]
           /\ images[image].context = <<tree, <<"sub","pkg">>>>
           /\ containers[container].by = rid[r]
           /\ containers[container].port = 3000
           /\ containers[container].running
           /\ response[r].docker_image = image
           /\ response[r].docker_container = container

\* The file name without the extension allowed_file accepted: what precedes
\* the last dot.
C15_Stem(f) == SubSeq(f, 1, RFind(f, ".") - 1)

\* C15: for every accepted file name the working tree is named by the file
\* name without its accepted extension, and so are the image and the
\* container; rsplit and os.path.splitext agree on where the extension
\* starts, names that begin with a dot included.
C15_ExtensionRemoved ==
    \A r \in Slots :
        LET f == request[r].filename
        IN (pc[r] \notin {"Idle", "Received"} /\ Did(r, "save")) =>
              /\ SplitextRoot(f) = C15_Stem(f)
              /\ (Did(r, "unpack") /\ Entry(r, "unpack").exit = 0) =>
                    \E k \in DOMAIN builds :
                        k[1] = BUILD_FOLDER \o <<"/">> \o C15_Stem(f)
              /\ Did(r, "build") =>
                    /\ image_name[r] = Lower(C15_Stem(f)) \o <<"-","i","m","a","g","e">>
                    /\ container_name[r] =
                           Lower(C15_Stem(f)) \o <<"-","c","o","n","t","a","i","n","e","r">>

\* Every request that is being handled goes on: the handler runs in a thread
\* of its own and each call it makes returns.
SpecFair == Spec /\ \A r \in Slots : WF_vars(Handler(r))

\* The stage of the pipeline a handler position belongs to.  Saving the
\* upload belongs to Validated, the Dockerfile test to Located, docker rm to
\* Built; an exception nobody catches ends the request like a failure.
C16_Stage(p) ==
    CASE p \in {"Validated", "Saved"} -> "Validated"
      [] p \in {"Located", "DescriptorMissing"} -> "Located"
      [] p \in {"Built", "Removed"} -> "Built"
      [] p \in {"Failed", "Crashed"} -> "Failed"
      [] OTHER -> p

C16_Order ==
    <<"Received", "Validated", "Extracted", "Located", "DescriptorEnsured",
      "Built", "Deployed", "Succeeded">>

C16_Index(stage) == CHOOSE i \in 1..Len(C16_Order) : C16_Order[i] = stage

\* One step of a request: to the next stage, within its stage to a position
\* not held before, or to Failed, and never out of Succeeded or Failed.
C16_Forward(r) ==
    LET from == C16_Stage(pc[r])
        to == C16_Stage(pc'[r])
    IN /\ from \notin {"Succeeded", "Failed"}
       /\ \/ to = "Failed"
          \/ /\ to # "Failed"
             /\ C16_Index(to) = C16_Index(from) + 1
          \/ /\ to = from
             /\ <<pc[r], pc'[r]>> \in {<<"Validated", "Saved">>,
                                       <<"Located", "DescriptorMissing">>,
                                       <<"Built", "Removed">>}

\* C16: a request moves through Received, Validated, Extracted, Located,
\* DescriptorEnsured, Built, Deployed, Succeeded only forward, or from any
\* of them to Failed; no stage is entered twice, Succeeded and Failed are
\* never left, and every request that is handled reaches one of the two.
C16_LinearPipeline ==
    /\ [][\A r \in Slots :
             (Steps(r) /\ rid'[r] = rid[r] /\ pc[r] # "Idle") => C16_Forward(r)]_vars
    /\ \A r \in Slots : InFlight(r) ~> (pc[r] \in Terminal)

\* One request has gone through every stage and succeeded while another
\* failed half way, at docker run.
C16_Witness ==
    \E r, q \in Slots :
        /\ pc[r] = "Succeeded"
        /\ Ops(r) = <<"save", "unpack", "write_descriptor", "build", "rm", "run">>
        /\ pc[q] = "Failed"
        /\ Did(q, "run")

\* The package.json request r located is a member of the archive r uploaded.
C17_ManifestFromUpload(r) ==
    package_json_path[r] # <<>> =>
        package_json_path[r] \in Archive(request[r].archive).members

\* The image request r built was made from the package.json of r's archive
\* and from a Dockerfile of r's archive or the one r wrote.
C17_ImageFromUpload(r) ==
    (Did(r, "build") /\ Entry(r, "build").exit = 0
        /\ image_name[r] \in DOMAIN images /\ images[image_name[r]].by = rid[r]) =>
        LET image == images[image_name[r]]
        IN /\ image.manifest = request[r].archive
           /\ \/ image.dockerfile = request[r].archive
              \/ image.dockerfile = DefaultDockerfile /\ Did(r, "write_descriptor")

\* C17: the build context of a run comes from the archive uploaded in that
\* run: the package.json find_file returns and the Dockerfile the build uses
\* are in the request's archive or were written by the request, never left
\* in the working tree by an earlier upload of the same base name.
C17_ContextFromCurrentUpload ==
    \A r \in Slots : C17_ManifestFromUpload(r) /\ C17_ImageFromUpload(r)

\* C18: whenever a request returns the success response, the container that
\* carries its container name was started by the request's own docker run
\* from the image the request's own docker build produced, in every
\* interleaving of concurrent requests.
C18_OwnContainerOnSuccess ==
    \A r \in Slots :
        pc[r] = "Deployed" =>
            /\ container_name[r] \in DOMAIN containers
            /\ containers[container_name[r]].by = rid[r]
            /\ containers[container_name[r]].image = rid[r]

====
